---------------------------- MODULE Spec2Model ----------------------------
(***************************************************************************)
(* The two card games of the repository: the 21-style game of              *)
(* src/blackjack.py and the modulo-10 game of src/baccarat.py.             *)
(*                                                                         *)
(* A card is modelled by its rank: the suit of a blackjack card is read    *)
(* only by card_str.  A shuffled shoe is modelled by the number of cards   *)
(* left in it; random.shuffle fixes an order the program never inspects,   *)
(* so the rank of a card is revealed when the card is removed.             *)
(*                                                                         *)
(* Money of the 21-style game is a float of dollars in the source; the     *)
(* model counts it in half cents, so that 1.5 x a bet of whole cents is an *)
(* integer.                                                                *)
(***************************************************************************)
EXTENDS Integers, Sequences, FiniteSets

VARIABLES
    pc,            \* position of the program in the handler being run
    ret,           \* value returned by the pure function of a function-level specification
    \* ---- 21-style game (src/blackjack.py)
    deckLen,       \* len(deck)
    balance,       \* balance, in half cents
    bet,           \* bet, in half cents
    player_hand,   \* player_hand
    dealer_hand,   \* dealer_hand
    action,        \* what player_turn returned: "bust", "stand", "double" ("none" before)
    net,           \* net of the round
    hist,          \* history of the round: what the player chose and what it did
    \* ---- modulo-10 game (src/baccarat.py)
    shoeLen,       \* len(shoe)
    player,        \* player
    banker,        \* banker
    player_third,  \* player_third ("None" when absent)
    banker_third,  \* banker_third ("None" when absent)
    p_total,       \* p_total
    b_total,       \* b_total
    winner,        \* winner
    dealt,         \* the cards draw() removed from the shoe in this round, in order
    bet_type,      \* bet_type
    bet_amount,    \* bet_amount
    payout,        \* what settle_bet returned
    bankroll,      \* bankroll of main
    bhist          \* history: len(shoe) before the reshuffle test and at the start of
                   \* the round, what banker_draws returned, the bankroll before the
                   \* round, rounds played, cards put in hands since the last reshuffle

vars == << pc, ret, deckLen, balance, bet, player_hand, dealer_hand, action, net, hist,
           shoeLen, player, banker, player_third, banker_third, p_total, b_total,
           winner, dealt, bet_type, bet_amount, payout, bankroll, bhist >>

bjVars == << deckLen, balance, bet, player_hand, dealer_hand, action, net, hist >>

bacVars == << shoeLen, player, banker, player_third, banker_third, p_total, b_total,
              winner, dealt, bet_type, bet_amount, payout, bankroll, bhist >>

(***************************************************************************)
(* Bounds of the model.                                                    *)
(***************************************************************************)
\* longest hand given to hand_value in SpecHand
MaxHandLen == 3

\* longest hand given to the 21-style settle_bet in SpecSettle21
MaxSettleLen == 3

\* number of ranks, counted along RankOrder, that the shoe of a round-level
\* specification of the 21-style game deals
NumModelRanks == 3

\* number of bet amounts the player chooses from
NumBets == 2

\* number of ranks, counted along the ranks list of create_shoe, that the
\* shoe of the modulo-10 game deals in SpecBacRound
NumBacRanks == 10

\* largest amount given to the modulo-10 settle_bet in SpecBacSettle
MaxAmount == 110

\* longest hand given to hand_total in SpecBacHand
MaxBacHandLen == 3

\* number of ranks, counted along the ranks list of create_shoe, that the
\* shoe deals in the rounds main runs
NumMainRanks == 3

\* number of amounts typed at prompt_bet
NumAmounts == 1

\* rounds main plays in one run of the model
MaxRounds == 2

(***************************************************************************)
(* Constants of the programs.                                              *)
(***************************************************************************)
\* num_decks of create_deck
NUM_DECKS == 6

\* play_round of blackjack.py reshuffles when len(deck) is below this
RESHUFFLE_BELOW == 15

\* the dealer draws while the value is below this
DEALER_STANDS == 17

\* balance at the start of main, in dollars
START_BALANCE == 100

\* DECKS of baccarat.py
DECKS == 8

\* RESHUFFLE_THRESHOLD of baccarat.py
RESHUFFLE_THRESHOLD == 6

\* bankroll at the start of main of baccarat.py
START_BANKROLL == 1000

\* the 13 ranks, RANKS of blackjack.py and ranks of baccarat.py
Ranks == {"A", "2", "3", "4", "5", "6", "7", "8", "9", "10", "J", "Q", "K"}

\* the ranks in the order the bounded specifications take them in
RankOrder == << "A", "K", "6", "Q", "5", "10", "9", "2", "3", "4", "7", "8", "J" >>

ModelRanks == {RankOrder[i] : i \in 1..NumModelRanks}

\* half cents in a dollar
Dollar == 2 * 100

\* the amounts typed at take_bet: multiples of 40 dollars
BetChoices == {k * 40 * Dollar : k \in 1..NumBets}

\* int(r) for a rank that is a numeral
IntRank(r) ==
    CASE r = "2" -> 2 [] r = "3" -> 3 [] r = "4" -> 4 [] r = "5" -> 5
      [] r = "6" -> 6 [] r = "7" -> 7 [] r = "8" -> 8 [] r = "9" -> 9
      [] r = "10" -> 10

\* the sequences over S of length lo..hi
SeqsOf(S, lo, hi) == UNION {[1..n -> S] : n \in lo..hi}

(***************************************************************************)
(* 21-style game: hand_value and is_blackjack                              *)
(***************************************************************************)
\* the first loop of hand_value: the sum with every ace counted as 11
RECURSIVE RawValue(_)
RawValue(hand) ==
    IF hand = << >> THEN 0
    ELSE LET r == Head(hand)
         IN  (IF r \in {"J", "Q", "K"} THEN 10
              ELSE IF r = "A" THEN 11
              ELSE IntRank(r)) + RawValue(Tail(hand))

\* the first loop of hand_value: the number of aces
RECURSIVE CountAces(_)
CountAces(hand) ==
    IF hand = << >> THEN 0
    ELSE (IF Head(hand) = "A" THEN 1 ELSE 0) + CountAces(Tail(hand))

\* a faulty variant of Downgrade: every ace is downgraded once the sum is over 21
DowngradeAllAces(value, aces) ==
    IF value > 21 /\ aces > 0 THEN << value - 10 * aces, 0 >>
    ELSE << value, aces >>

\* the while loop of hand_value: <<value, aces>> when it ends
RECURSIVE Downgrade(_, _)
Downgrade(value, aces) ==
    IF value > 21 /\ aces > 0 THEN Downgrade(value - 10, aces - 1)
    ELSE << value, aces >>

\* any(r == 'A' for r, _ in hand)
AnyAce(hand) == \E i \in 1..Len(hand) : hand[i] = "A"

\* the expression hand_value assigns to is_soft
IsSoftExpr(hand, value, aces) ==
    AnyAce(hand) /\ value <= 21 /\ AnyAce(hand) /\ value - 10 >= 11

\* hand_value(hand), with the tally of aces still counted as 11 kept beside it
hand_value(hand) ==
    LET d == Downgrade(RawValue(hand), CountAces(hand))
    IN  [value |-> d[1], is_soft |-> IsSoftExpr(hand, d[1], d[2]), aces11 |-> d[2]]

\* is_blackjack(hand)
is_blackjack(hand) == hand_value(hand).value = 21 /\ Len(hand) = 2

(***************************************************************************)
(* SpecHand: hand_value applied to every hand of at most MaxHandLen cards. *)
(***************************************************************************)
NoBacHist == [shoe0 |-> 0, banker_decision |-> "not asked", in_main |-> FALSE,
              shoe_before |-> 0, bankroll0 |-> 0, rounds |-> 0, in_hands |-> 0]

BjIdle ==
    /\ deckLen = 0 /\ balance = 0 /\ bet = 0
    /\ player_hand = << >> /\ dealer_hand = << >>
    /\ action = "none" /\ net = 0 /\ hist = << >>

BacIdle ==
    /\ shoeLen = 0 /\ player = << >> /\ banker = << >>
    /\ player_third = "None" /\ banker_third = "None"
    /\ p_total = 0 /\ b_total = 0 /\ winner = "none" /\ dealt = << >>
    /\ bet_type = "none" /\ bet_amount = 0 /\ payout = 0 /\ bankroll = 0
    /\ bhist = NoBacHist

InitHand ==
    /\ pc = "call" /\ ret = << >>
    /\ player_hand \in SeqsOf(Ranks, 2, MaxHandLen)
    /\ deckLen = 0 /\ balance = 0 /\ bet = 0 /\ dealer_hand = << >>
    /\ action = "none" /\ net = 0 /\ hist = << >>
    /\ BacIdle

CallHandValue ==
    /\ pc = "call"
    /\ ret' = hand_value(player_hand)
    /\ pc' = "ret"
    /\ UNCHANGED << bjVars, bacVars >>

SpecHand == InitHand /\ [][CallHandValue]_vars

\* C2: whenever hand_value has returned, is_soft is true iff at least one ace
\* of the hand is still counted as 11 in the returned sum (and so false once
\* every ace has been downgraded to 1).
C2_SoftIffAceCountedAs11 ==
    pc = "ret" => (ret.is_soft <=> ret.aces11 > 0)

(***************************************************************************)
(* 21-style game: settle_bet                                               *)
(***************************************************************************)
\* a faulty variant of settle_bet: the dealer's score is consulted before the player's
settle_bet_dealer_first(ph, dh, b) ==
    LET pv == hand_value(ph).value
        dv == hand_value(dh).value
    IN  IF is_blackjack(ph) /\ ~is_blackjack(dh) THEN (b * 3) \div 2
        ELSE IF is_blackjack(ph) /\ is_blackjack(dh) THEN 0
        ELSE IF dv > 21 THEN b
        ELSE IF pv > 21 THEN -b
        ELSE IF pv > dv THEN b
        ELSE IF pv < dv THEN -b
        ELSE 0

\* settle_bet(player_hand, dealer_hand, bet); bet * 1.5 is exact in half cents
settle_bet(ph, dh, b) ==
    LET pv == hand_value(ph).value
        dv == hand_value(dh).value
    IN  IF is_blackjack(ph) /\ ~is_blackjack(dh) THEN (b * 3) \div 2
        ELSE IF is_blackjack(ph) /\ is_blackjack(dh) THEN 0
        ELSE IF pv > 21 THEN -b
        ELSE IF dv > 21 THEN b
        ELSE IF pv > dv THEN b
        ELSE IF pv < dv THEN -b
        ELSE 0

(***************************************************************************)
(* SpecSettle21: settle_bet applied to every pair of final hands of at     *)
(* most MaxSettleLen cards over ModelRanks and every bet of BetChoices.    *)
(***************************************************************************)
InitSettle21 ==
    /\ pc = "call" /\ ret = << >>
    /\ player_hand \in SeqsOf(ModelRanks, 2, MaxSettleLen)
    /\ dealer_hand \in SeqsOf(ModelRanks, 2, MaxSettleLen)
    /\ bet \in BetChoices
    /\ deckLen = 0 /\ balance = 0
    /\ action = "none" /\ net = 0 /\ hist = << >>
    /\ BacIdle

CallSettle21 ==
    /\ pc = "call"
    /\ net' = settle_bet(player_hand, dealer_hand, bet)
    /\ pc' = "ret"
    /\ UNCHANGED << ret, deckLen, balance, bet, player_hand, dealer_hand, action, hist,
                    bacVars >>

SpecSettle21 == InitSettle21 /\ [][CallSettle21]_vars

\* the score of a hand: every card at its face value, J/Q/K at 10, an ace at 11
\* unless that takes the hand over 21 while an ace can still count as 1
Score(hand) ==
    LET S == RawValue(hand)
        k == CountAces(hand)
        fits == {d \in 0..k : S - 10 * d <= 21}
    IN  IF fits = {} THEN S - 10 * k
        ELSE S - 10 * (CHOOSE d \in fits : \A e \in fits : d <= e)

\* a natural: exactly two cards scoring 21
Natural(hand) == Len(hand) = 2 /\ Score(hand) = 21

\* C8: the net settle_bet returns is decided by the first matching rule, in
\* the order: player natural and dealer not -> +1.5 x amount; both natural
\* -> 0; player over 21 -> -amount (also when the dealer is over 21); dealer
\* over 21 -> +amount; player above dealer -> +amount; player below dealer
\* -> -amount; equal -> 0.
C8_SettleFirstMatchingRule ==
    pc = "ret" =>
        LET pn == Natural(player_hand)
            dn == Natural(dealer_hand)
            ps == Score(player_hand)
            ds == Score(dealer_hand)
        IN  /\ (pn /\ ~dn) => 2 * net = 3 * bet
            /\ (pn /\ dn) => net = 0
            /\ (~pn /\ ps > 21) => net = -bet
            /\ (~pn /\ ps <= 21 /\ ds > 21) => net = bet
            /\ (~pn /\ ps <= 21 /\ ds <= 21 /\ ps > ds) => net = bet
            /\ (~pn /\ ps <= 21 /\ ds <= 21 /\ ps < ds) => net = -bet
            /\ (~pn /\ ps <= 21 /\ ds <= 21 /\ ps = ds) => net = 0

\* C8 witness: a player natural against a dealer's three-card 21 has been
\* settled at +1.5 x the bet
C8_Witness ==
    /\ pc = "ret"
    /\ Natural(player_hand)
    /\ Len(dealer_hand) = 3 /\ Score(dealer_hand) = 21
    /\ 2 * net = 3 * bet /\ bet > 0

(***************************************************************************)
(* 21-style game: play_round, player_turn and dealer_turn                  *)
(***************************************************************************)
\* len(create_deck()): num_decks x 4 suits x 13 ranks
FullDeck == NUM_DECKS * 4 * Cardinality(Ranks)

\* a faulty variant of DealerHits: the dealer also draws on 17
DealerHitsOn17(hand) == hand_value(hand).value <= DEALER_STANDS

\* the test of dealer_turn's loop
DealerHits(hand) == hand_value(hand).value < DEALER_STANDS

\* a faulty variant of Busted: a hand of 22 is not yet a bust
BustedOver22(hand) == hand_value(hand).value > 22

\* the bust test at the top of player_turn's loop and after a double
Busted(hand) == hand_value(hand).value > 21

\* a round starts with a fresh deck, with a deck one card below the reshuffle
\* threshold, or with one exactly at it
NoHist == [bet0 |-> 0, decisions |-> 0, chose_double |-> FALSE, funds_at_double |-> 0,
           dealer |-> "no", start_len |-> 0, len_before |-> 0, balance0 |-> 0]

InitBJ ==
    /\ pc = "round" /\ ret = << >>
    /\ deckLen \in {FullDeck, RESHUFFLE_BELOW - 1, RESHUFFLE_BELOW}
    /\ balance = START_BALANCE * Dollar
    /\ bet = 0 /\ player_hand = << >> /\ dealer_hand = << >>
    /\ action = "none" /\ net = 0 /\ hist = NoHist
    /\ BacIdle

\* play_round up to the first prompt of player_turn: the reshuffle test,
\* take_bet, the initial deal and the check of naturals
StartRound ==
    /\ pc = "round"
    /\ LET d == IF deckLen < RESHUFFLE_BELOW THEN FullDeck ELSE deckLen
       IN  \E b \in {c \in BetChoices : c > 0 /\ c <= balance} :
           \E c1, c2, c3, c4 \in ModelRanks :
              LET ph == << c1, c2 >>
                  dh == << c3, c4 >>
              IN  /\ deckLen' = d - 4
                  /\ bet' = b
                  /\ player_hand' = ph
                  /\ dealer_hand' = dh
                  /\ hist' = [NoHist EXCEPT !.bet0 = b, !.start_len = d,
                                             !.len_before = deckLen,
                                             !.balance0 = balance]
                  /\ action' = "none"
                  /\ IF is_blackjack(ph) \/ is_blackjack(dh)
                     THEN /\ net' = settle_bet(ph, dh, b)
                          /\ balance' = balance + net'
                          /\ pc' = "returned"
                     ELSE /\ net' = 0
                          /\ balance' = balance
                          /\ pc' = "player_turn"
    /\ UNCHANGED << ret, bacVars >>

\* take_bet returns None: play_round returns the quit signal
QuitAtBet ==
    /\ pc = "round"
    /\ deckLen' = IF deckLen < RESHUFFLE_BELOW THEN FullDeck ELSE deckLen
    /\ pc' = "quit"
    /\ UNCHANGED << ret, balance, bet, player_hand, dealer_hand, action, net, hist,
                    bacVars >>

\* player_turn, choice 'h': deck.pop() is appended, then the loop's bust test;
\* on a bust play_round settles -bet.  deck.pop() of an empty deck raises.
Hit ==
    /\ pc = "player_turn"
    /\ IF deckLen = 0
       THEN /\ pc' = "crashed"
            /\ UNCHANGED << deckLen, balance, player_hand, action, net, hist >>
       ELSE \E c \in ModelRanks :
              /\ deckLen' = deckLen - 1
              /\ player_hand' = Append(player_hand, c)
              /\ hist' = [hist EXCEPT !.decisions = @ + 1]
              /\ IF Busted(player_hand')
                 THEN /\ action' = "bust"
                      /\ net' = -bet
                      /\ balance' = balance + net'
                      /\ pc' = "returned"
                 ELSE /\ pc' = "player_turn"
                      /\ UNCHANGED << action, net, balance >>
    /\ UNCHANGED << ret, bet, dealer_hand, bacVars >>

\* player_turn, choice 's'
Stand ==
    /\ pc = "player_turn"
    /\ action' = "stand"
    /\ hist' = [hist EXCEPT !.decisions = @ + 1, !.dealer = "running"]
    /\ pc' = "dealer_turn"
    /\ UNCHANGED << ret, deckLen, balance, bet, player_hand, dealer_hand, net, bacVars >>

\* player_turn, choice 'd' (can_double is True in every call), and the
\* 'double' branch of play_round with its bust test
Double ==
    /\ pc = "player_turn"
    /\ Len(player_hand) = 2
    /\ action' = "double"
    /\ IF deckLen = 0
       THEN /\ pc' = "crashed"
            /\ hist' = [hist EXCEPT !.decisions = @ + 1, !.chose_double = TRUE,
                                    !.funds_at_double = balance]
            /\ UNCHANGED << deckLen, balance, bet, player_hand, net >>
       ELSE \E c \in ModelRanks :
              LET enough == ~(bet * 2 > balance)
                  bal1 == IF enough THEN balance - bet ELSE balance
                  bet1 == IF enough THEN bet * 2 ELSE bet
              IN  /\ deckLen' = deckLen - 1
                  /\ player_hand' = Append(player_hand, c)
                  /\ bet' = bet1
                  /\ IF Busted(player_hand')
                     THEN /\ net' = -bet1
                          /\ balance' = bal1 + net'
                          /\ pc' = "returned"
                          /\ hist' = [hist EXCEPT !.decisions = @ + 1,
                                                  !.chose_double = TRUE,
                                                  !.funds_at_double = balance]
                     ELSE /\ net' = net
                          /\ balance' = bal1
                          /\ pc' = "dealer_turn"
                          /\ hist' = [hist EXCEPT !.decisions = @ + 1,
                                                  !.chose_double = TRUE,
                                                  !.funds_at_double = balance,
                                                  !.dealer = "running"]
    /\ UNCHANGED << ret, dealer_hand, bacVars >>

\* dealer_turn, one pass of the loop with value < 17
DealerDraw ==
    /\ pc = "dealer_turn"
    /\ DealerHits(dealer_hand)
    /\ IF deckLen = 0
       THEN /\ pc' = "crashed"
            /\ UNCHANGED << deckLen, dealer_hand >>
       ELSE \E c \in ModelRanks :
              /\ deckLen' = deckLen - 1
              /\ dealer_hand' = Append(dealer_hand, c)
              /\ pc' = "dealer_turn"
    /\ UNCHANGED << ret, balance, bet, player_hand, action, net, hist, bacVars >>

\* dealer_turn leaves its loop; play_round settles the bet and returns
DealerStandsAndSettle ==
    /\ pc = "dealer_turn"
    /\ ~DealerHits(dealer_hand)
    /\ net' = settle_bet(player_hand, dealer_hand, bet)
    /\ balance' = balance + net'
    /\ hist' = [hist EXCEPT !.dealer = "ended"]
    /\ pc' = "returned"
    /\ UNCHANGED << ret, deckLen, bet, player_hand, dealer_hand, action, bacVars >>

NextBJ ==
    \/ StartRound
    \/ QuitAtBet
    \/ Hit
    \/ Stand
    \/ Double
    \/ DealerDraw
    \/ DealerStandsAndSettle

SpecBJ == InitBJ /\ [][NextBJ]_vars

\* C3: a double takes effect only as the player's first decision, on a
\* two-card hand and with funds for the doubled bet (balance >= 2 x bet); the
\* player then holds exactly one more card, the bet is doubled and the turn
\* is over.  So no round has the player choose double without the funds and
\* still receive a card at the undoubled bet.
C3_DoubleOnlyWithFundsAndDoublesBet ==
    hist.chose_double =>
        /\ hist.decisions = 1
        /\ hist.funds_at_double >= 2 * hist.bet0
        /\ Len(player_hand) = 3
        /\ bet = 2 * hist.bet0
        /\ pc # "player_turn"

\* C5: with the reshuffle test of play_round before the deal, no card is
\* ever popped from an empty deck during the round.
C5_NeverPopsFromEmptyDeck ==
    pc # "crashed"

\* C7: the dealer takes a card exactly while the score is below 17: every
\* hand the dealer drew on scored below 17, and when the dealer's turn has
\* ended the score is at least 17, hence a dealer whose two cards already
\* score 17 or more (soft 17 included) ends with two cards.
C7_DealerDrawsExactlyBelow17 ==
    hist.dealer \in {"running", "ended"} =>
        /\ \A n \in 2..(Len(dealer_hand) - 1) : Score(SubSeq(dealer_hand, 1, n)) < 17
        /\ hist.dealer = "ended" => Score(dealer_hand) >= 17
        /\ (hist.dealer = "ended" /\ Score(SubSeq(dealer_hand, 1, 2)) >= 17)
               => Len(dealer_hand) = 2

\* C7 witness: the dealer's turn has ended on a two-card soft 17
C7_Witness ==
    /\ pc = "returned" /\ hist.dealer = "ended"
    /\ dealer_hand = << "A", "6" >>

(***************************************************************************)
(* Modulo-10 game: card_value, hand_total and the draw rules               *)
(***************************************************************************)
\* ranks of create_shoe, in its order
BacRankList == << "A", "2", "3", "4", "5", "6", "7", "8", "9", "10", "J", "Q", "K" >>

BacRanks == {BacRankList[i] : i \in 1..NumBacRanks}

\* the ranks a round deals: the first NumMainRanks when main runs the round
DealRanks ==
    IF bhist.in_main THEN {BacRankList[i] : i \in 1..NumMainRanks} ELSE BacRanks

\* len(create_shoe())
FullShoe == Len(BacRankList) * 4 * DECKS

\* card_value(rank)
card_value(rank) ==
    IF rank = "A" THEN 1
    ELSE IF rank \in {"10", "J", "Q", "K"} THEN 0
    ELSE IntRank(rank)

RECURSIVE SumValues(_)
SumValues(hand) ==
    IF hand = << >> THEN 0 ELSE card_value(Head(hand)) + SumValues(Tail(hand))

\* a faulty variant of hand_total: the sum is not reduced modulo 10
hand_total_no_mod(hand) == SumValues(hand)

\* hand_total(hand)
hand_total(hand) == SumValues(hand) % 10

\* a faulty variant of player_draws: the player also draws on 6
player_draws_on_6(player_total) == player_total <= 6

\* player_draws(player_total)
player_draws(player_total) == player_total <= 5

\* a faulty variant of banker_draws: on 3 the banker stands against a 9, not an 8
banker_draws_stands_on_9(bank_total, player_third_card) ==
    IF player_third_card = "None" THEN bank_total <= 5
    ELSE LET p3 == card_value(player_third_card)
         IN  IF bank_total <= 2 THEN TRUE
             ELSE IF bank_total = 3 THEN p3 # 9
             ELSE IF bank_total = 4 THEN 2 <= p3 /\ p3 <= 7
             ELSE IF bank_total = 5 THEN 4 <= p3 /\ p3 <= 7
             ELSE IF bank_total = 6 THEN p3 \in {6, 7}
             ELSE FALSE

\* banker_draws(bank_total, player_third_card)
banker_draws(bank_total, player_third_card) ==
    IF player_third_card = "None" THEN bank_total <= 5
    ELSE LET p3 == card_value(player_third_card)
         IN  IF bank_total <= 2 THEN TRUE
             ELSE IF bank_total = 3 THEN p3 # 8
             ELSE IF bank_total = 4 THEN 2 <= p3 /\ p3 <= 7
             ELSE IF bank_total = 5 THEN 4 <= p3 /\ p3 <= 7
             ELSE IF bank_total = 6 THEN p3 \in {6, 7}
             ELSE FALSE

\* a faulty variant of IsNatural: only the player's total is tested
IsNaturalPlayerOnly(pt, bt) == pt \in {8, 9}

\* the naturals test of play_round
IsNatural(pt, bt) == pt \in {8, 9} \/ bt \in {8, 9}

\* the winner play_round decides
DecideWinner(pt, bt) ==
    IF pt > bt THEN "player" ELSE IF bt > pt THEN "banker" ELSE "tie"

(***************************************************************************)
(* SpecBacRound: one call of play_round, on a shoe main can pass to it: a  *)
(* fresh one, or one with exactly RESHUFFLE_THRESHOLD cards left.          *)
(***************************************************************************)
InitBacRound ==
    /\ pc = "round" /\ ret = << >>
    /\ BjIdle
    /\ shoeLen \in {FullShoe, RESHUFFLE_THRESHOLD}
    /\ player = << >> /\ banker = << >>
    /\ player_third = "None" /\ banker_third = "None"
    /\ p_total = 0 /\ b_total = 0 /\ winner = "none" /\ dealt = << >>
    /\ bet_type = "none" /\ bet_amount = 0 /\ payout = 0 /\ bankroll = 0
    /\ bhist = [NoBacHist EXCEPT !.shoe0 = shoeLen]

\* a faulty variant of ShoeAfterDraws: draw returns shoe[0] and leaves it in the shoe
ShoeAfterPeeks(n, k) == n

\* len(shoe) after k calls of draw on a shoe of n >= k cards: pop(0) removes
\* one card per call
ShoeAfterDraws(n, k) == n - k

\* play_round, the deal of the initial four cards and their totals; draw()
\* raises on an empty shoe
DealInitial ==
    /\ pc = "round"
    /\ IF shoeLen < 4
       THEN /\ pc' = "crashed"
            /\ shoeLen' = 0
            /\ UNCHANGED << player, banker, p_total, b_total, dealt >>
       ELSE \E c1, c2, c3, c4 \in DealRanks :
              /\ player' = << c1, c2 >>
              /\ banker' = << c3, c4 >>
              /\ dealt' = << c1, c2, c3, c4 >>
              /\ shoeLen' = ShoeAfterDraws(shoeLen, 4)
              /\ p_total' = hand_total(player')
              /\ b_total' = hand_total(banker')
              /\ pc' = "dealt"
    /\ UNCHANGED << ret, bjVars, player_third, banker_third, winner, bet_type,
                    bet_amount, payout, bankroll, bhist >>

\* play_round from the naturals test to its return: the third-card rules,
\* the final totals and the winner
ThirdCardsAndWinner ==
    /\ pc = "dealt"
    /\ IF IsNatural(p_total, b_total)
       THEN /\ player_third' = "None"
            /\ banker_third' = "None"
            /\ p_total' = hand_total(player)
            /\ b_total' = hand_total(banker)
            /\ winner' = DecideWinner(p_total', b_total')
            /\ pc' = "returned"
            /\ UNCHANGED << player, banker, shoeLen, dealt, bhist >>
       ELSE \E c5 \in IF player_draws(p_total) THEN DealRanks ELSE {"None"} :
              LET dec == banker_draws(b_total, c5)
                  need == (IF c5 = "None" THEN 0 ELSE 1) + (IF dec THEN 1 ELSE 0)
              IN  IF shoeLen < need
                  THEN /\ pc' = "crashed"
                       /\ shoeLen' = 0
                       /\ UNCHANGED << player, banker, player_third, banker_third,
                                       p_total, b_total, winner, dealt, bhist >>
                  ELSE \E c6 \in IF dec THEN DealRanks ELSE {"None"} :
                         /\ player_third' = c5
                         /\ banker_third' = c6
                         /\ player' = IF c5 = "None" THEN player ELSE Append(player, c5)
                         /\ banker' = IF c6 = "None" THEN banker ELSE Append(banker, c6)
                         /\ dealt' = dealt \o (IF c5 = "None" THEN << >> ELSE << c5 >>)
                                           \o (IF c6 = "None" THEN << >> ELSE << c6 >>)
                         /\ shoeLen' = ShoeAfterDraws(shoeLen, need)
                         /\ bhist' = [bhist EXCEPT !.banker_decision = dec]
                         /\ p_total' = hand_total(player')
                         /\ b_total' = hand_total(banker')
                         /\ winner' = DecideWinner(p_total', b_total')
                         /\ pc' = "returned"
    /\ UNCHANGED << ret, bjVars, bet_type, bet_amount, payout, bankroll >>

NextBacRound ==
    \/ DealInitial
    \/ ThirdCardsAndWinner

SpecBacRound == InitBacRound /\ [][NextBacRound]_vars

\* the totals of the two cards each side was dealt first
PlayerTwoCardTotal == hand_total(SubSeq(player, 1, 2))
BankerTwoCardTotal == hand_total(SubSeq(banker, 1, 2))

\* a natural occurred: either two-card total is 8 or 9
NaturalOccurred == PlayerTwoCardTotal \in {8, 9} \/ BankerTwoCardTotal \in {8, 9}

\* the banker's third-card table, on the banker's total and the player's third card
BankerTable(total, third) ==
    IF third = "None" THEN total <= 5
    ELSE LET p3 == card_value(third)
         IN  \/ total <= 2
             \/ total = 3 /\ p3 # 8
             \/ total = 4 /\ p3 \in 2..7
             \/ total = 5 /\ p3 \in 4..7
             \/ total = 6 /\ p3 \in {6, 7}

\* C1: on a banker total of 0..7 and the player's third card (absent, or of
\* value p3) banker_draws answers by the table: without a player draw, iff
\* total <= 5; with one, iff total <= 2, or total = 3 and p3 # 8, or total = 4
\* and 2 <= p3 <= 7, or total = 5 and 4 <= p3 <= 7, or total = 6 and p3 in
\* {6,7}; never on 7.  In play_round the banker's hand gets a third card
\* exactly when that answer, on the banker's two-card total, is true and no
\* natural occurred.
C1_BankerDrawsByTable ==
    pc = "returned" =>
        /\ ~NaturalOccurred =>
               /\ BankerTwoCardTotal \in 0..7
               /\ bhist.banker_decision = BankerTable(BankerTwoCardTotal, player_third)
               /\ BankerTwoCardTotal = 7 => bhist.banker_decision = FALSE
        /\ Len(banker) = 3 <=>
               (~NaturalOccurred /\ BankerTable(BankerTwoCardTotal, player_third))
        /\ banker_third # "None" <=> Len(banker) = 3
        /\ banker_third # "None" => banker[3] = banker_third

\* C1 witness: a round has returned in which the banker held 3, the player
\* drew a card of value 8, and the banker stood
C1_Witness ==
    /\ pc = "returned"
    /\ BankerTwoCardTotal = 3
    /\ player_third # "None" /\ card_value(player_third) = 8
    /\ Len(banker) = 2 /\ banker_third = "None"

\* C4: the four initial cards are dealt alternately, Player, Banker, Player,
\* Banker: the 1st and 3rd cards removed from the shoe are the Player's
\* initial hand and the 2nd and 4th the Banker's.
C4_InitialCardsDealtAlternately ==
    pc \in {"dealt", "returned"} =>
        /\ SubSeq(player, 1, 2) = << dealt[1], dealt[3] >>
        /\ SubSeq(banker, 1, 2) = << dealt[2], dealt[4] >>

\* C6: if either two-card total is 8 or 9, neither side draws: both final
\* hands hold two cards, player_third and banker_third are absent, exactly
\* four cards have left the shoe, and the winner is decided on the two-card
\* totals.
C6_NaturalEndsRoundAtFourCards ==
    (pc = "returned" /\ NaturalOccurred) =>
        /\ Len(player) = 2 /\ Len(banker) = 2
        /\ player_third = "None" /\ banker_third = "None"
        /\ Len(dealt) = 4 /\ shoeLen = bhist.shoe0 - 4
        /\ p_total = PlayerTwoCardTotal /\ b_total = BankerTwoCardTotal
        /\ winner = (IF PlayerTwoCardTotal > BankerTwoCardTotal THEN "player"
                     ELSE IF PlayerTwoCardTotal < BankerTwoCardTotal THEN "banker"
                     ELSE "tie")

\* C6 witness: a round has returned on a banker's natural against a player
\* total on which the player would otherwise have drawn
C6_Witness ==
    /\ pc = "returned"
    /\ BankerTwoCardTotal \in {8, 9} /\ PlayerTwoCardTotal <= 5
    /\ Len(player) = 2 /\ Len(banker) = 2 /\ winner = "banker"

(***************************************************************************)
(* Modulo-10 game: settle_bet                                              *)
(***************************************************************************)
\* the nearest integer to n / d (n >= 0, d > 0), a half going up
NearestHalfUp(n, d) == (2 * n + d) \div (2 * d)

\* the nearest integer to n / d (n >= 0, d > 0), a half going to the even
\* neighbour: what round() of Python 3 returns
NearestHalfEven(n, d) ==
    LET q == n \div d
        r == n % d
    IN  IF 2 * r < d THEN q
        ELSE IF 2 * r > d THEN q + 1
        ELSE IF q % 2 = 0 THEN q ELSE q + 1

\* a faulty variant of BankerProfit: a half is rounded up
BankerProfitHalfUp(bet_amt) == NearestHalfUp(95 * bet_amt, 100)

\* int(round(bet_amount * 0.95)).  The float product is a half exactly when
\* 95 * bet_amount / 100 is (the error of the float 0.95 is below half a unit
\* in the last place of the product), and is nowhere else near one.
BankerProfit(bet_amt) == NearestHalfEven(95 * bet_amt, 100)

\* a faulty variant of bac_settle_bet: a tie pays 9:1
bac_settle_bet_tie_pays_9(btype, amount, win) ==
    IF win = "tie"
    THEN IF btype = "tie" THEN amount * 9 ELSE 0
    ELSE IF win = "player"
    THEN IF btype = "player" THEN amount
         ELSE IF btype = "banker" THEN -amount
         ELSE -amount
    ELSE IF win = "banker"
    THEN IF btype = "banker" THEN BankerProfit(amount)
         ELSE IF btype = "player" THEN -amount
         ELSE -amount
    ELSE -amount

\* settle_bet(bet_type, bet_amount, winner) of baccarat.py
bac_settle_bet(btype, amount, win) ==
    IF win = "tie"
    THEN IF btype = "tie" THEN amount * 8 ELSE 0
    ELSE IF win = "player"
    THEN IF btype = "player" THEN amount
         ELSE IF btype = "banker" THEN -amount
         ELSE -amount
    ELSE IF win = "banker"
    THEN IF btype = "banker" THEN BankerProfit(amount)
         ELSE IF btype = "player" THEN -amount
         ELSE -amount
    ELSE -amount

(***************************************************************************)
(* SpecBacSettle: settle_bet applied to every bet target, every winner and *)
(* every amount of 1..MaxAmount.                                           *)
(***************************************************************************)
BetTypes == {"player", "banker", "tie"}

InitBacSettle ==
    /\ pc = "call" /\ ret = << >>
    /\ BjIdle
    /\ shoeLen = 0 /\ player = << >> /\ banker = << >>
    /\ player_third = "None" /\ banker_third = "None"
    /\ p_total = 0 /\ b_total = 0 /\ dealt = << >> /\ bhist = NoBacHist
    /\ winner \in BetTypes
    /\ bet_type \in BetTypes
    /\ bet_amount \in 1..MaxAmount
    /\ payout = 0 /\ bankroll = 0

CallBacSettle ==
    /\ pc = "call"
    /\ payout' = bac_settle_bet(bet_type, bet_amount, winner)
    /\ pc' = "ret"
    /\ UNCHANGED << ret, bjVars, shoeLen, player, banker, player_third, banker_third,
                    p_total, b_total, winner, dealt, bet_type, bet_amount, bankroll,
                    bhist >>

SpecBacSettle == InitBacSettle /\ [][CallBacSettle]_vars

\* C9: a tie gives +8 x amount to a bet on tie and 0 to a bet on player or on
\* banker; a player win gives +amount to a bet on player and -amount to a
\* bet on banker; a banker win gives -amount to a bet on player.
C9_TiePlayerBankerPayouts ==
    pc = "ret" =>
        /\ (winner = "tie" /\ bet_type = "tie") => payout = 8 * bet_amount
        /\ (winner = "tie" /\ bet_type \in {"player", "banker"}) => payout = 0
        /\ (winner = "player" /\ bet_type = "player") => payout = bet_amount
        /\ (winner = "player" /\ bet_type = "banker") => payout = -bet_amount
        /\ (winner = "banker" /\ bet_type = "player") => payout = -bet_amount

\* C9 witness: a bet of 10 on tie has been settled at +80 on a tie
C9_Witness ==
    /\ pc = "ret" /\ winner = "tie" /\ bet_type = "tie"
    /\ bet_amount = 10 /\ payout = 80

\* C10 as stated: on a banker win a bet on banker profits amount x 0.95
\* rounded to the nearest integer, an exact half rounded away from zero.
C10_CommissionHalfAwayFromZero ==
    (pc = "ret" /\ winner = "banker" /\ bet_type = "banker") =>
        /\ 20 * payout - 19 * bet_amount \in (-9)..10
        /\ bet_amount = 100 => payout = 95

\* C10 as amended: on a banker win a bet on banker profits amount x 0.95
\* rounded to the nearest integer, an exact half rounded to the even
\* neighbour (100 -> 95, 10 -> 9.5 -> 10, 30 -> 28.5 -> 28).
C10_CommissionHalfToEven ==
    (pc = "ret" /\ winner = "banker" /\ bet_type = "banker") =>
        LET diff == 20 * payout - 19 * bet_amount
        IN  /\ diff \in (-10)..10
            /\ diff \in {-10, 10} => payout % 2 = 0
            /\ bet_amount = 100 => payout = 95

\* C10 witness: a bet of 30 on banker has been settled at 28, the even
\* neighbour of 28.5
C10_Witness ==
    /\ pc = "ret" /\ winner = "banker" /\ bet_type = "banker"
    /\ bet_amount = 30 /\ payout = 28

(***************************************************************************)
(* Further properties of a round of the 21-style game (SpecBJ)             *)
(***************************************************************************)
\* C13: as soon as the player's score exceeds 21, after a hit or after the
\* one card of a double, the turn is over and the round is lost: no further
\* decision is asked for, the dealer keeps the two initial cards, and the net
\* is minus the bet in force.
C13_BustEndsRoundAsLoss ==
    Score(player_hand) > 21 =>
        /\ pc = "returned"
        /\ Len(dealer_hand) = 2 /\ hist.dealer = "no"
        /\ net = -bet
        /\ Score(SubSeq(player_hand, 1, Len(player_hand) - 1)) <= 21

\* C13 witness: the one card of a funded double has taken the player over 21
C13_Witness ==
    /\ pc = "returned" /\ action = "double" /\ bet = 2 * hist.bet0
    /\ Score(player_hand) > 21 /\ Len(dealer_hand) = 2 /\ net = -bet

\* the settlement of the final hands at an amount, by the rules of the game
NetAt(amount) ==
    IF Score(player_hand) > 21 THEN -amount
    ELSE IF Score(dealer_hand) > 21 THEN amount
    ELSE IF Score(player_hand) > Score(dealer_hand) THEN amount
    ELSE IF Score(player_hand) < Score(dealer_hand) THEN -amount
    ELSE 0

\* C16: after a double that took effect, the balance at the end of the round
\* is the balance at its start plus the settlement of the final hands at
\* 2 x the original bet: a doubled loss or bust costs exactly 2 x the bet, a
\* doubled win brings exactly 2 x the bet, a doubled push leaves the balance.
C16_DoubledRoundSettlesAtTwiceTheBet ==
    (pc = "returned" /\ hist.chose_double /\ bet = 2 * hist.bet0) =>
        balance = hist.balance0 + NetAt(2 * hist.bet0)

\* C17: from a positive balance and bets with 0 < bet <= balance, the
\* balance is never negative after a round.
C17_BalanceNeverNegative ==
    pc = "returned" => balance >= 0

(***************************************************************************)
(* Further properties of hand_value (SpecHand)                             *)
(***************************************************************************)
\* what a rank counts with an ace at 11
PointsAceHigh(r) ==
    CASE r = "A" -> 11
      [] r \in {"J", "Q", "K"} -> 10
      [] OTHER -> CHOOSE n \in 2..10 : IntRank(r) = n

\* the sum of a hand with every ace at 11, and its number of aces
SumAceHigh(hand) ==
    LET f[i \in 0..Len(hand)] == IF i = 0 THEN 0 ELSE f[i - 1] + PointsAceHigh(hand[i])
    IN  f[Len(hand)]

NumAces(hand) == Cardinality({i \in 1..Len(hand) : hand[i] = "A"})

\* C14: with S the sum of the hand at face values (J/Q/K 10, every ace 11)
\* and k its number of aces, hand_value returns S - 10 * d for the least d in
\* 0..k with S - 10 * d <= 21 (d = k if there is none); so the score is at
\* most 21 whenever S - 10 * k <= 21.
C14_ScoreDowngradesLeastAces ==
    pc = "ret" =>
        LET S == SumAceHigh(player_hand)
            k == NumAces(player_hand)
            fits == {d \in 0..k : S - 10 * d <= 21}
            least == IF fits = {} THEN k
                     ELSE CHOOSE d \in fits : \A e \in fits : d <= e
        IN  /\ ret.value = S - 10 * least
            /\ S - 10 * k <= 21 => ret.value <= 21

\* C14 witness: a hand of three cards with two aces has been scored with one
\* ace downgraded and one still at 11
C14_Witness ==
    /\ pc = "ret" /\ Len(player_hand) = 3 /\ NumAces(player_hand) = 2
    /\ ret.value = SumAceHigh(player_hand) - 10 /\ ret.value <= 21

(***************************************************************************)
(* SpecBacHand: hand_total applied to every hand of 2..MaxBacHandLen cards *)
(***************************************************************************)
InitBacHand ==
    /\ pc = "call" /\ ret = << >>
    /\ BjIdle
    /\ player \in SeqsOf(Ranks, 2, MaxBacHandLen)
    /\ shoeLen = 0 /\ banker = << >>
    /\ player_third = "None" /\ banker_third = "None"
    /\ p_total = 0 /\ b_total = 0 /\ winner = "none" /\ dealt = << >>
    /\ bet_type = "none" /\ bet_amount = 0 /\ payout = 0 /\ bankroll = 0
    /\ bhist = NoBacHist

CallHandTotal ==
    /\ pc = "call"
    /\ p_total' = hand_total(player)
    /\ pc' = "ret"
    /\ UNCHANGED << ret, bjVars, shoeLen, player, banker, player_third, banker_third,
                    b_total, winner, dealt, bet_type, bet_amount, payout, bankroll,
                    bhist >>

SpecBacHand == InitBacHand /\ [][CallHandTotal]_vars

\* the value of a rank in the modulo-10 game
Mod10Points(r) ==
    CASE r = "A" -> 1
      [] r \in {"10", "J", "Q", "K"} -> 0
      [] OTHER -> CHOOSE n \in 2..9 : IntRank(r) = n

\* the permutations of 1..n
Perms(n) == {q \in [1..n -> 1..n] : \A i, j \in 1..n : q[i] = q[j] => i = j}

\* C15: the score of a hand of two or three ranks is the sum of the card
\* values (A 1, 2-9 face value, 10/J/Q/K 0) modulo 10, lies in 0..9, and is
\* the same for every permutation of the hand's cards.
C15_HandTotalMod10AndOrderFree ==
    pc = "ret" =>
        LET n == Len(player)
            sum[i \in 0..n] == IF i = 0 THEN 0 ELSE sum[i - 1] + Mod10Points(player[i])
        IN  /\ p_total = sum[n] % 10
            /\ p_total \in 0..9
            /\ \A q \in Perms(n) : hand_total([i \in 1..n |-> player[q[i]]]) = p_total

\* C15 witness: a three-card hand summing to more than 9 has been scored
C15_Witness ==
    /\ pc = "ret" /\ player = << "9", "6", "2" >> /\ p_total = 7

(***************************************************************************)
(* Further properties of play_round of the modulo-10 game (SpecBacRound)   *)
(***************************************************************************)
\* the modulo-10 score of a hand, from the values of its cards
Mod10Score(hand) ==
    LET sum[i \in 0..Len(hand)] ==
            IF i = 0 THEN 0 ELSE sum[i - 1] + Mod10Points(hand[i])
    IN  sum[Len(hand)] % 10

\* C18: without a natural the Player receives a third card iff the Player's
\* two-card total is <= 5; each draw decision is taken once, so no hand holds
\* more than three cards; the winner is the side with the higher total
\* recomputed after all draws, or tie iff the totals are equal; player_total
\* and banker_total are the modulo-10 scores of the final hands.
C18_PlayerThirdCardAndWinner ==
    pc = "returned" =>
        /\ ~NaturalOccurred =>
               /\ Len(player) = 3 <=> Mod10Score(SubSeq(player, 1, 2)) <= 5
               /\ player_third # "None" <=> Len(player) = 3
               /\ player_third # "None" => player[3] = player_third
        /\ Len(player) \in 2..3 /\ Len(banker) \in 2..3
        /\ p_total = Mod10Score(player) /\ b_total = Mod10Score(banker)
        /\ winner = "player" <=> Mod10Score(player) > Mod10Score(banker)
        /\ winner = "banker" <=> Mod10Score(player) < Mod10Score(banker)
        /\ winner = "tie" <=> Mod10Score(player) = Mod10Score(banker)

\* C18 witness: the Player drew on 5 (9, 6), was dealt a 2 and ended at 7,
\* ahead of the Banker
C18_Witness ==
    /\ pc = "returned"
    /\ player = << "9", "6", "2" >> /\ p_total = 7
    /\ b_total < 7 /\ winner = "player"

(***************************************************************************)
(* Modulo-10 game: the loop of main                                        *)
(***************************************************************************)
\* the amounts typed at prompt_bet: multiples of 500
MainAmounts == {k * 500 : k \in 1..NumAmounts}

\* a faulty variant of BacNeedsReshuffle: the threshold is one card too low
BacNeedsReshuffleLate(n) == n < RESHUFFLE_THRESHOLD - 1

\* a faulty variant of BacNeedsReshuffle: a shoe of exactly the threshold is rebuilt
BacNeedsReshuffleAtThreshold(n) == n <= RESHUFFLE_THRESHOLD

\* the reshuffle test at the top of main's loop
BacNeedsReshuffle(n) == n < RESHUFFLE_THRESHOLD

\* a faulty variant of BankrollAfter: a push on a player or banker bet costs the bet
BankrollAfterPushLoses(br, btype, amount, win) ==
    IF win = "tie"
    THEN IF btype = "tie" THEN br + bac_settle_bet(btype, amount, "tie")
         ELSE br - amount
    ELSE IF win = "player"
    THEN LET po == bac_settle_bet(btype, amount, "player")
         IN  IF po > 0 THEN br + po ELSE br - amount
    ELSE IF win = "banker"
    THEN IF btype = "banker" THEN br + bac_settle_bet(btype, amount, "banker")
         ELSE br - amount
    ELSE br

\* the bankroll after the winner branches of main
BankrollAfter(br, btype, amount, win) ==
    IF win = "tie"
    THEN IF btype = "tie" THEN br + bac_settle_bet(btype, amount, "tie")
         ELSE br
    ELSE IF win = "player"
    THEN LET po == bac_settle_bet(btype, amount, "player")
         IN  IF po > 0 THEN br + po ELSE br - amount
    ELSE IF win = "banker"
    THEN IF btype = "banker" THEN br + bac_settle_bet(btype, amount, "banker")
         ELSE br - amount
    ELSE br

\* main is at the top of its loop with the starting bankroll and a shoe that
\* is fresh or four cards above the threshold (a round then leaves it
\* below, at or just below the threshold)
InitBacMain ==
    /\ pc = "main" /\ ret = << >>
    /\ BjIdle
    /\ shoeLen \in {FullShoe, RESHUFFLE_THRESHOLD + 4}
    /\ player = << >> /\ banker = << >>
    /\ player_third = "None" /\ banker_third = "None"
    /\ p_total = 0 /\ b_total = 0 /\ winner = "none" /\ dealt = << >>
    /\ bet_type = "none" /\ bet_amount = 0 /\ payout = 0
    /\ bankroll = START_BANKROLL
    /\ bhist = [NoBacHist EXCEPT !.in_main = TRUE, !.in_hands = FullShoe - shoeLen]

\* main, from the top of the loop to the call of play_round: the reshuffle
\* test and prompt_bet returning a bet
MainPlaceBet ==
    /\ pc = "main"
    /\ \E bt \in BetTypes :
       \E amt \in {a \in MainAmounts : ~(a <= 0) /\ ~(a > bankroll)} :
          /\ bet_type' = bt
          /\ bet_amount' = amt
    /\ shoeLen' = IF BacNeedsReshuffle(shoeLen) THEN FullShoe ELSE shoeLen
    /\ bhist' = [bhist EXCEPT !.shoe_before = shoeLen,
                              !.shoe0 = shoeLen',
                              !.bankroll0 = bankroll,
                              !.rounds = @ + 1,
                              !.in_hands = IF BacNeedsReshuffle(shoeLen) THEN 0 ELSE @,
                              !.banker_decision = "not asked"]
    /\ pc' = "round"
    /\ UNCHANGED << ret, bjVars, player, banker, player_third, banker_third, p_total,
                    b_total, winner, dealt, payout, bankroll >>

\* main: prompt_bet returns (None, None)
MainQuitAtBet ==
    /\ pc = "main"
    /\ shoeLen' = IF BacNeedsReshuffle(shoeLen) THEN FullShoe ELSE shoeLen
    /\ bhist' = [bhist EXCEPT !.in_hands = IF BacNeedsReshuffle(shoeLen) THEN 0 ELSE @]
    /\ pc' = "over"
    /\ UNCHANGED << ret, bjVars, player, banker, player_third, banker_third, p_total,
                    b_total, winner, dealt, bet_type, bet_amount, payout, bankroll >>

\* main after play_round: the winner branches and the test bankroll <= 0
MainSettle ==
    /\ pc = "returned"
    /\ bankroll' = BankrollAfter(bankroll, bet_type, bet_amount, winner)
    /\ payout' = IF (winner = "tie" /\ bet_type = "tie") \/ winner = "player"
                 THEN bac_settle_bet(bet_type, bet_amount, winner)
                 ELSE payout
    /\ bhist' = [bhist EXCEPT !.in_hands = @ + Len(player) + Len(banker)]
    /\ pc' = IF bankroll' <= 0 THEN "over" ELSE "continue"
    /\ UNCHANGED << ret, bjVars, shoeLen, player, banker, player_third, banker_third,
                    p_total, b_total, winner, dealt, bet_type, bet_amount >>

\* main: Enter at "Play another round?"; the results of the round are dropped
MainContinue ==
    /\ pc = "continue"
    /\ bhist.rounds < MaxRounds
    /\ pc' = "main"
    /\ player' = << >> /\ banker' = << >>
    /\ player_third' = "None" /\ banker_third' = "None"
    /\ p_total' = 0 /\ b_total' = 0 /\ winner' = "none" /\ dealt' = << >>
    /\ bet_type' = "none" /\ bet_amount' = 0 /\ payout' = 0
    /\ UNCHANGED << ret, bjVars, shoeLen, bankroll, bhist >>

\* main: 'q' at "Play another round?"
MainStop ==
    /\ pc = "continue"
    /\ pc' = "over"
    /\ UNCHANGED << ret, bjVars, bacVars >>

NextBacMain ==
    \/ MainPlaceBet
    \/ MainQuitAtBet
    \/ DealInitial
    \/ ThirdCardsAndWinner
    \/ MainSettle
    \/ MainContinue
    \/ MainStop

SpecBacMain == InitBacMain /\ [][NextBacMain]_vars

\* C12: main reshuffles whenever fewer than 6 cards remain before a round, so
\* draw() never finds the shoe empty in any round, and every round removes
\* at least 4 and at most 6 cards from the shoe.
C12_DrawNeverFindsShoeEmpty ==
    /\ pc # "crashed"
    /\ pc = "round" => shoeLen >= 6
    /\ pc \in {"returned", "continue"} =>
           /\ Len(dealt) \in 4..6
           /\ shoeLen = bhist.shoe0 - Len(dealt)
           /\ shoeLen >= 0

\* C12 witness: a round that started on a shoe of exactly 6 cards has
\* returned with the shoe empty
C12_Witness ==
    /\ pc = "returned" /\ bhist.shoe0 = 6 /\ Len(dealt) = 6 /\ shoeLen = 0

\* C20: the bankroll change main applies after a round equals what
\* settle_bet returns for the bet target, the amount and the winner: a bet
\* on tie loses exactly the amount on a player or banker win, a push leaves
\* the bankroll unchanged, and the bankroll is never negative after a round.
C20_BankrollChangeIsSettleBet ==
    (pc \in {"continue", "over"} /\ winner # "none") =>
        /\ bankroll - bhist.bankroll0 = bac_settle_bet(bet_type, bet_amount, winner)
        /\ (bet_type = "tie" /\ winner # "tie") => bankroll = bhist.bankroll0 - bet_amount
        /\ (bet_type # "tie" /\ winner = "tie") => bankroll = bhist.bankroll0
        /\ bankroll >= 0

\* C20 witness: a bet on tie has lost its amount on a banker win
C20_Witness ==
    /\ pc \in {"continue", "over"}
    /\ bet_type = "tie" /\ winner = "banker" /\ bet_amount > 0
    /\ bankroll = bhist.bankroll0 - bet_amount

(***************************************************************************)
(* Both games: a session is a round of the 21-style game or a run of the   *)
(* modulo-10 game's main                                                   *)
(***************************************************************************)
InitGames == InitBJ \/ InitBacMain

NextGames ==
    \/ ~bhist.in_main /\ StartRound
    \/ ~bhist.in_main /\ QuitAtBet
    \/ ~bhist.in_main /\ Hit
    \/ ~bhist.in_main /\ Stand
    \/ ~bhist.in_main /\ Double
    \/ ~bhist.in_main /\ DealerDraw
    \/ ~bhist.in_main /\ DealerStandsAndSettle
    \/ bhist.in_main /\ MainPlaceBet
    \/ bhist.in_main /\ MainQuitAtBet
    \/ bhist.in_main /\ DealInitial
    \/ bhist.in_main /\ ThirdCardsAndWinner
    \/ bhist.in_main /\ MainSettle
    \/ bhist.in_main /\ MainContinue
    \/ bhist.in_main /\ MainStop

SpecGames == InitGames /\ [][NextGames]_vars

\* a round of the modulo-10 game has passed main's reshuffle test
BacRoundStarted == bhist.in_main /\ pc \in {"round", "dealt", "returned", "continue"}

\* a round of the 21-style game has passed play_round's reshuffle test and deal
BjRoundStarted == ~bhist.in_main /\ pc \in {"player_turn", "dealer_turn", "returned"}

\* C11: in both games, a round that finds fewer cards than the threshold
\* (6, resp. 15) deals its first card from a full shoe (416, resp. 312
\* cards); one that finds at least the threshold keeps the shoe; so every
\* round starts dealing with at least threshold-many cards.
C11_ReshuffleBelowThreshold ==
    /\ BacRoundStarted =>
          /\ bhist.shoe_before < 6 => bhist.shoe0 = 416
          /\ bhist.shoe_before >= 6 => bhist.shoe0 = bhist.shoe_before
          /\ bhist.shoe0 >= 6
          /\ pc = "round" => shoeLen = bhist.shoe0
          /\ pc = "dealt" => shoeLen = bhist.shoe0 - 4
    /\ BjRoundStarted =>
          /\ hist.len_before < 15 => hist.start_len = 312
          /\ hist.len_before >= 15 => hist.start_len = hist.len_before
          /\ hist.start_len >= 15
          /\ Len(player_hand) + Len(dealer_hand) = 4 => deckLen = hist.start_len - 4

\* C11 witness: the second round of a session found fewer than 6 cards and
\* has dealt its first four cards from a full shoe
C11_Witness ==
    /\ bhist.in_main /\ pc = "dealt" /\ bhist.rounds = 2
    /\ bhist.shoe_before < 6 /\ shoeLen = FullShoe - 4

\* the step rebuilds the shoe in use
IsReshuffle ==
    \/ bhist.in_main /\ pc = "main" /\ shoeLen < 6 /\ shoeLen' = 416
    \/ ~bhist.in_main /\ pc = "round" /\ deckLen < 15 /\ deckLen' \in {312, 312 - 4}

=============================================================================
